---- MODULE Spec2Model ----
(***************************************************************************)
(* Model of fedml_experiments/centralized/fed_transformer/                 *)
(* main_vit_fine_tune.py: the fine-tuning driver run by `world` processes  *)
(* (one process unless the run is distributed).  Every process executes    *)
(* the same script; pc[p] is the position of process p in it.              *)
(***************************************************************************)
EXTENDS Integers, Sequences, FiniteSets, TLC

\* ---- bounds of the model ----
MaxWorld == 2          \* largest WORLD_SIZE explored
MaxEpochs == 2         \* largest --epochs explored
TrainSetSize == 2      \* number of training samples of the (abstract) dataset

Procs == 0 .. (MaxWorld - 1)

\* ---- command-line inputs explored ----
ModelNames == {"transformer", "other"}
DatasetNames == {"cifar10", "cifar100", "other"}
DistFlags == {0, 1, 2}
RankFlags == {0, 1}
EpochValues == (0 - 1) .. MaxEpochs
BatchSizes == 1 .. TrainSetSize

ArgsSpace == [model : ModelNames, dataset : DatasetNames, epochs : EpochValues,
              is_distributed : DistFlags, global_rank : RankFlags,
              batch_size : BatchSizes]

\* the value of `args` before parse_args has returned
NoArgs == [model |-> "", dataset |-> "", epochs |-> 0, is_distributed |-> 0,
           global_rank |-> 0, batch_size |-> 0]

VARIABLES
  cmdline,       \* the command line every process is started with
  world,         \* WORLD_SIZE: number of processes launched
  pc,            \* position of each process in the script
  args,          \* the parsed configuration object of each process
  argWrites,     \* fields of args assigned after parse_args returned
  global_rank,   \* the local variable global_rank of __main__
  pgState,       \* process group: "none", "init", "destroyed"
  exc,           \* an exception has been raised in the process
  stages,        \* stages of __main__ started/finished, in order
  wandbInited,   \* wandb.init was called
  wandbLog,      \* the wandb.log calls, in order
  barrierCalls,  \* number of torch.distributed.barrier() calls made
  loaded,        \* dataset class constructed by the loader
  samplerClass,  \* sampler class chosen for the training set
  numBatches,    \* len(train_dl)
  class_num,     \* the local variable class_num of __main__
  model,         \* "unset", "None", "ViT", "DDP"
  numClasses,    \* num_classes the model was built with
  loadCount,     \* number of model.load_from calls
  optSteps,      \* number of optimizer.step() calls (weight updates)
  tTotal,        \* t_total the scheduler was configured with
  schedSteps,    \* number of scheduler.step() calls
  epoch,         \* loop variable of train_and_eval
  batch,         \* batch index inside train()
  callLog        \* calls and returns of train() and eval(), in order

mainVars == <<cmdline, world, args, argWrites, global_rank, pgState>>
trackVars == <<wandbInited, wandbLog>>
dataVars == <<barrierCalls, loaded, samplerClass, numBatches, class_num>>
modelVars == <<model, numClasses, loadCount, optSteps>>
loopVars == <<tTotal, schedSteps, epoch, batch, callLog>>
vars == <<pc, exc, stages, mainVars, trackVars, dataVars, modelVars, loopVars>>

Upd(f, p, v) == [f EXCEPT ![p] = v]

CeilDiv(a, b) == (a + b - 1) \div b

Launched == {p \in Procs : p < world}

\* ---- conditions and pure computations of the script ----

\* line 295: if args.is_distributed == 1 (init_ddp)
InitsProcessGroup(a) == a.is_distributed = 1

CallsBarrierRankZero(a) == a.is_distributed = 1 /\ a.global_rank = 0
\* lines 163, 210: if args.is_distributed == 1: torch.distributed.barrier()
CallsBarrier(a) == a.is_distributed = 1

\* line 213: RandomSampler if args.is_distributed == 0 else DistributedSampler
SamplerFor(a) == IF a.is_distributed = 0 THEN "Random" ELSE "Distributed"

\* line 327: if args.is_distributed == 1: get_ddp_model
WrapsModel(a) == a.is_distributed = 1

NeedsTeardownAlways(a) == a.is_distributed >= 0
\* line 332: if args.is_distributed == 1: dist.destroy_process_group()
NeedsTeardown(a) == a.is_distributed = 1

\* lines 191-208: the dataset class the loader constructs
LoadedDataset(name) == IF name = "cifar10" THEN "CIFAR10" ELSE "CIFAR100"

\* lines 315-323: class_num chosen by __main__
ClassNum(name) == IF name = "cifar10" THEN 10
                  ELSE IF name = "cifar100" THEN 100 ELSE 10

\* line 306: if global_rank == 0: wandb.init
InitsTracker(rank) == rank = 0

\* line 101: if args.global_rank == 0: wandb.log
LogsMetrics(a) == a.global_rank = 0

RangeHasNextInclusive(e, n) == e <= n
\* line 157: for epoch in range(args.epochs)
RangeHasNext(e, n) == e < n

ArgsAfterInitClobber(a, rank) == [a EXCEPT !.global_rank = rank, !.epochs = 0]
\* line 297: args.global_rank = global_rank
ArgsAfterInit(a, rank) == [a EXCEPT !.global_rank = rank]

\* lines 213-219: len(train_dl) for the sampler chosen
LoaderLen(a, cls, w) ==
  IF cls = "Random" THEN CeilDiv(TrainSetSize, a.batch_size)
  ELSE CeilDiv(CeilDiv(TrainSetSize, w), a.batch_size)

\* lines 102-108: the four wandb.log calls of eval(epoch)
EpochMetrics(e) == << <<"Train/Acc", e>>, <<"Train/Loss", e>>,
                      <<"Test/Acc", e>>, <<"Test/Loss", e>> >>

RaiseToFinally(p) == pc' = Upd(pc, p, "teardown")
\* no try/except anywhere in the script: an exception ends the process
Raise(p) == pc' = Upd(pc, p, "failed")

\* positions at which an external call of the script can raise
Fallible == {"ddp", "wandb", "data_construct", "data_loaders", "create_model",
             "to_device", "wrap", "setup", "train", "eval", "teardown"}

Init ==
  /\ cmdline \in ArgsSpace
  /\ world \in 1 .. MaxWorld
  /\ (cmdline.is_distributed # 1 => world = 1)
  /\ pc = [p \in Procs |-> IF p < world THEN "parse" ELSE "idle"]
  /\ args = [p \in Procs |-> NoArgs]
  /\ argWrites = [p \in Procs |-> {}]
  /\ global_rank = [p \in Procs |-> 0 - 1]
  /\ pgState = [p \in Procs |-> "none"]
  /\ exc = [p \in Procs |-> FALSE]
  /\ stages = [p \in Procs |-> << >>]
  /\ wandbInited = [p \in Procs |-> FALSE]
  /\ wandbLog = [p \in Procs |-> << >>]
  /\ barrierCalls = [p \in Procs |-> 0]
  /\ loaded = [p \in Procs |-> "none"]
  /\ samplerClass = [p \in Procs |-> "none"]
  /\ numBatches = [p \in Procs |-> 0]
  /\ class_num = [p \in Procs |-> 0]
  /\ model = [p \in Procs |-> "unset"]
  /\ numClasses = [p \in Procs |-> 0]
  /\ loadCount = [p \in Procs |-> 0]
  /\ optSteps = [p \in Procs |-> 0]
  /\ tTotal = [p \in Procs |-> 0]
  /\ schedSteps = [p \in Procs |-> 0]
  /\ epoch = [p \in Procs |-> 0]
  /\ batch = [p \in Procs |-> 0]
  /\ callLog = [p \in Procs |-> << >>]

\* lines 230-274: parser.parse_args()
ParseArgs(p) ==
  /\ pc[p] = "parse"
  /\ args' = Upd(args, p, cmdline)
  /\ stages' = Upd(stages, p, Append(stages[p], "parse"))
  /\ pc' = Upd(pc, p, "ddp")
  /\ UNCHANGED <<exc, cmdline, world, argWrites, global_rank, pgState,
                 trackVars, dataVars, modelVars, loopVars>>

\* lines 295-300 and init_ddp (26-44); RANK of process p is p
SetupDDP(p) ==
  /\ pc[p] = "ddp"
  /\ IF InitsProcessGroup(args[p])
       THEN /\ pgState' = Upd(pgState, p, "init")
            /\ global_rank' = Upd(global_rank, p, p)
            /\ args' = Upd(args, p, ArgsAfterInit(args[p], p))
            /\ argWrites' = Upd(argWrites, p,
                 argWrites[p] \cup {f \in DOMAIN args[p] :
                    f = "global_rank" \/ ArgsAfterInit(args[p], p)[f] # args[p][f]})
            /\ stages' = Upd(stages, p, Append(stages[p], "init_pg"))
       ELSE /\ global_rank' = Upd(global_rank, p, 0)
            /\ UNCHANGED <<pgState, args, argWrites, stages>>
  /\ pc' = Upd(pc, p, "wandb")
  /\ UNCHANGED <<exc, cmdline, world, trackVars, dataVars, modelVars, loopVars>>

\* lines 306-312: wandb.init on the process whose global_rank is 0
WandbInit(p) ==
  /\ pc[p] = "wandb"
  /\ wandbInited' = Upd(wandbInited, p, wandbInited[p] \/ InitsTracker(global_rank[p]))
  /\ pc' = Upd(pc, p, "data_barrier1")
  /\ UNCHANGED <<exc, stages, mainVars, wandbLog, dataVars, modelVars, loopVars>>

\* lines 163-164 and 210-211: the barrier call is entered (or skipped)
DataBarrierEnter(p) ==
  /\ pc[p] \in {"data_barrier1", "data_barrier2"}
  /\ stages' = Upd(stages, p, IF pc[p] = "data_barrier1"
                                THEN Append(stages[p], "data_begin") ELSE stages[p])
  /\ IF CallsBarrier(args[p])
       THEN /\ barrierCalls' = Upd(barrierCalls, p, barrierCalls[p] + 1)
            /\ pc' = Upd(pc, p, IF pc[p] = "data_barrier1"
                                  THEN "data_wait1" ELSE "data_wait2")
       ELSE /\ UNCHANGED barrierCalls
            /\ pc' = Upd(pc, p, IF pc[p] = "data_barrier1"
                                  THEN "data_construct" ELSE "data_loaders")
  /\ UNCHANGED <<exc, mainVars, trackVars, loaded, samplerClass, numBatches,
                 class_num, modelVars, loopVars>>

\* torch.distributed.barrier() returns once every process of the group
\* has entered the same barrier
DataBarrierExit(p) ==
  /\ pc[p] \in {"data_wait1", "data_wait2"}
  /\ \A q \in Launched : barrierCalls[q] >= barrierCalls[p]
  /\ pc' = Upd(pc, p, IF pc[p] = "data_wait1" THEN "data_construct" ELSE "data_loaders")
  /\ UNCHANGED <<exc, stages, mainVars, trackVars, dataVars, modelVars, loopVars>>

\* lines 191-208: datasets.CIFAR10 / datasets.CIFAR100
DataConstruct(p) ==
  /\ pc[p] = "data_construct"
  /\ loaded' = Upd(loaded, p, LoadedDataset(args[p].dataset))
  /\ pc' = Upd(pc, p, "data_barrier2")
  /\ UNCHANGED <<exc, stages, mainVars, trackVars, barrierCalls, samplerClass,
                 numBatches, class_num, modelVars, loopVars>>

\* lines 213-226 and 315-323: samplers, loaders, class_num.
\* DistributedSampler raises when no process group is initialised.
DataLoaders(p) ==
  /\ pc[p] = "data_loaders"
  /\ samplerClass' = Upd(samplerClass, p, SamplerFor(args[p]))
  /\ IF SamplerFor(args[p]) = "Distributed" /\ pgState[p] # "init"
       THEN /\ exc' = Upd(exc, p, TRUE)
            /\ Raise(p)
            /\ UNCHANGED <<numBatches, class_num, stages>>
       ELSE /\ numBatches' = Upd(numBatches, p,
                                 LoaderLen(args[p], SamplerFor(args[p]), world))
            /\ class_num' = Upd(class_num, p, ClassNum(args[p].dataset))
            /\ stages' = Upd(stages, p, Append(stages[p], "data_end"))
            /\ pc' = Upd(pc, p, "create_model")
            /\ UNCHANGED exc
  /\ UNCHANGED <<mainVars, trackVars, barrierCalls, loaded, modelVars, loopVars>>

\* create_model (51-64), called on line 326
CreateModel(p) ==
  /\ pc[p] = "create_model"
  /\ IF args[p].model = "transformer"
       THEN /\ model' = Upd(model, p, "ViT")
            /\ numClasses' = Upd(numClasses, p, class_num[p])
            /\ loadCount' = Upd(loadCount, p, loadCount[p] + 1)
       ELSE /\ model' = Upd(model, p, "None")
            /\ UNCHANGED <<numClasses, loadCount>>
  /\ pc' = Upd(pc, p, "to_device")
  /\ UNCHANGED <<exc, stages, mainVars, trackVars, dataVars, optSteps, loopVars>>

\* line 326: .to(device) on the value create_model returned
ToDevice(p) ==
  /\ pc[p] = "to_device"
  /\ IF model[p] = "None"
       THEN /\ exc' = Upd(exc, p, TRUE)
            /\ Raise(p)
            /\ UNCHANGED stages
       ELSE /\ stages' = Upd(stages, p, Append(stages[p], "model"))
            /\ pc' = Upd(pc, p, "wrap")
            /\ UNCHANGED exc
  /\ UNCHANGED <<mainVars, trackVars, dataVars, modelVars, loopVars>>

\* lines 327-328: get_ddp_model
WrapModel(p) ==
  /\ pc[p] = "wrap"
  /\ IF WrapsModel(args[p])
       THEN /\ model' = Upd(model, p, "DDP")
            /\ stages' = Upd(stages, p, Append(stages[p], "wrap"))
       ELSE UNCHANGED <<model, stages>>
  /\ pc' = Upd(pc, p, "setup")
  /\ UNCHANGED <<exc, mainVars, trackVars, dataVars, numClasses, loadCount,
                 optSteps, loopVars>>

\* train_and_eval, lines 138-156: optimizer and scheduler construction
Setup(p) ==
  /\ pc[p] = "setup"
  /\ tTotal' = Upd(tTotal, p, args[p].epochs)
  /\ epoch' = Upd(epoch, p, 0)
  /\ stages' = Upd(stages, p, Append(stages[p], "loop_begin"))
  /\ pc' = Upd(pc, p, "loop")
  /\ UNCHANGED <<exc, mainVars, trackVars, dataVars, modelVars, schedSteps,
                 batch, callLog>>

\* line 157: the head of the epoch loop; calls train(epoch) or leaves the loop
LoopHead(p) ==
  /\ pc[p] = "loop"
  /\ IF RangeHasNext(epoch[p], args[p].epochs)
       THEN /\ callLog' = Upd(callLog, p, Append(callLog[p], <<"train", epoch[p]>>))
            /\ batch' = Upd(batch, p, 0)
            /\ pc' = Upd(pc, p, "train")
            /\ UNCHANGED stages
       ELSE /\ stages' = Upd(stages, p, Append(stages[p], "loop_end"))
            /\ pc' = Upd(pc, p, "teardown")
            /\ UNCHANGED <<callLog, batch>>
  /\ UNCHANGED <<exc, mainVars, trackVars, dataVars, modelVars, tTotal,
                 schedSteps, epoch>>

\* train, lines 117-129: one batch, optimizer.step() then scheduler.step()
TrainBatch(p) ==
  /\ pc[p] = "train"
  /\ batch[p] < numBatches[p]
  /\ optSteps' = Upd(optSteps, p, optSteps[p] + 1)
  /\ schedSteps' = Upd(schedSteps, p, schedSteps[p] + 1)
  /\ batch' = Upd(batch, p, batch[p] + 1)
  /\ UNCHANGED <<pc, exc, stages, mainVars, trackVars, dataVars, model,
                 numClasses, loadCount, tTotal, epoch, callLog>>

\* train returns (the loader is exhausted); line 159 calls eval(epoch)
TrainReturn(p) ==
  /\ pc[p] = "train"
  /\ batch[p] >= numBatches[p]
  /\ callLog' = Upd(callLog, p, callLog[p] \o << <<"train_ret", epoch[p]>>,
                                                <<"eval", epoch[p]>> >>)
  /\ pc' = Upd(pc, p, "eval")
  /\ UNCHANGED <<exc, stages, mainVars, trackVars, dataVars, modelVars, tTotal,
                 schedSteps, epoch, batch>>

\* eval, lines 86-110: two _infer passes, then the metrics are logged.
\* wandb.log raises when wandb.init was not called.
Eval(p) ==
  /\ pc[p] = "eval"
  /\ IF LogsMetrics(args[p]) /\ ~wandbInited[p]
       THEN /\ exc' = Upd(exc, p, TRUE)
            /\ Raise(p)
            /\ UNCHANGED <<wandbLog, callLog, epoch>>
       ELSE /\ wandbLog' = Upd(wandbLog, p,
                 IF LogsMetrics(args[p]) THEN wandbLog[p] \o EpochMetrics(epoch[p])
                 ELSE wandbLog[p])
            /\ callLog' = Upd(callLog, p, Append(callLog[p], <<"eval_ret", epoch[p]>>))
            /\ epoch' = Upd(epoch, p, epoch[p] + 1)
            /\ pc' = Upd(pc, p, "loop")
            /\ UNCHANGED exc
  /\ UNCHANGED <<stages, mainVars, wandbInited, dataVars, modelVars, tTotal,
                 schedSteps, batch>>

\* lines 332-333: dist.destroy_process_group()
Teardown(p) ==
  /\ pc[p] = "teardown"
  /\ IF NeedsTeardown(args[p])
       THEN /\ pgState' = Upd(pgState, p, "destroyed")
            /\ stages' = Upd(stages, p, Append(stages[p], "teardown"))
       ELSE UNCHANGED <<pgState, stages>>
  /\ pc' = Upd(pc, p, "done")
  /\ UNCHANGED <<exc, cmdline, world, args, argWrites, global_rank, trackVars,
                 dataVars, modelVars, loopVars>>

\* an external call (framework, tracker, file system) raises
Fail(p) ==
  /\ pc[p] \in Fallible
  /\ ~exc[p]
  /\ exc' = Upd(exc, p, TRUE)
  /\ Raise(p)
  /\ UNCHANGED <<stages, mainVars, trackVars, dataVars, modelVars, loopVars>>

Proceed(p) ==
  \/ ParseArgs(p)
  \/ SetupDDP(p)
  \/ WandbInit(p)
  \/ DataBarrierEnter(p)
  \/ DataBarrierExit(p)
  \/ DataConstruct(p)
  \/ DataLoaders(p)
  \/ CreateModel(p)
  \/ ToDevice(p)
  \/ WrapModel(p)
  \/ Setup(p)
  \/ LoopHead(p)
  \/ TrainBatch(p)
  \/ TrainReturn(p)
  \/ Eval(p)
  \/ Teardown(p)

Next == \E p \in Procs : Proceed(p) \/ Fail(p)

Spec == Init /\ [][Next]_vars

\* every launched process keeps running while it can take a step
FairSpec == Spec /\ \A p \in Procs : WF_vars(Proceed(p))

\* ---- expected histories, stated from the description of the pipeline ----

Opt(cond, s) == IF cond THEN s ELSE << >>

IsPrefix(s, t) == Len(s) <= Len(t) /\ \A i \in 1 .. Len(s) : s[i] = t[i]

NonNeg(n) == IF n < 0 THEN 0 ELSE n

\* the stages of a complete run started with configuration a
ExpectedStages(a) ==
  <<"parse">> \o Opt(a.is_distributed = 1, <<"init_pg">>)
    \o <<"data_begin", "data_end", "model">>
    \o Opt(a.is_distributed = 1, <<"wrap">>)
    \o <<"loop_begin", "loop_end">>
    \o Opt(a.is_distributed = 1, <<"teardown">>)

CallKinds == <<"train", "train_ret", "eval", "eval_ret">>

\* calls and returns of n epochs: train(0), eval(0), train(1), eval(1), ...
ExpectedCalls(n) ==
  [i \in 1 .. 4 * NonNeg(n) |-> <<CallKinds[((i - 1) % 4) + 1], (i - 1) \div 4>>]

MetricNames == <<"Train/Acc", "Train/Loss", "Test/Acc", "Test/Loss">>

\* the metrics logged after n evaluations
ExpectedMetrics(n) ==
  [i \in 1 .. 4 * NonNeg(n) |-> <<MetricNames[((i - 1) % 4) + 1], (i - 1) \div 4>>]

ClassesOf(ds) == IF ds = "CIFAR10" THEN 10 ELSE 100

\* everything process p owns
PState(p) == <<pc[p], args[p], argWrites[p], global_rank[p], pgState[p], stages[p],
               wandbInited[p], wandbLog[p], barrierCalls[p], loaded[p],
               samplerClass[p], numBatches[p], class_num[p], model[p],
               numClasses[p], loadCount[p], optSteps[p], tTotal[p],
               schedSteps[p], epoch[p], batch[p], callLog[p]>>

\* ---- C1 ----
\* C1: in a run that completes, the stages (parse, process-group init iff
\* is_distributed = 1, data loading, model construction with weight loading,
\* data-parallel wrap iff is_distributed = 1, epoch loop, teardown iff
\* is_distributed = 1) happen exactly once each and in this order; no stage
\* overtakes another, and teardown comes after the last epoch's evaluation.
C1_PipelineOrder ==
  \A p \in Launched :
    /\ IsPrefix(stages[p], ExpectedStages(cmdline))
    /\ pc[p] = "done" =>
         /\ stages[p] = ExpectedStages(cmdline)
         /\ loadCount[p] = 1
         /\ (pgState[p] = "destroyed") = (cmdline.is_distributed = 1)
         /\ (model[p] = "DDP") = (cmdline.is_distributed = 1)
    /\ (pgState[p] = "destroyed" \/ pc[p] = "done") =>
         /\ callLog[p] = ExpectedCalls(cmdline.epochs)
         /\ epoch[p] = NonNeg(cmdline.epochs)

C1_Witness ==
  \E p \in Launched :
    /\ pc[p] = "done" /\ cmdline.is_distributed = 1 /\ cmdline.epochs >= 1
    /\ pgState[p] = "destroyed" /\ Len(stages[p]) = 9

\* ---- C2 ----
\* C2 (as stated): after parse_args has returned no field of args is
\* written again, in distributed mode as well as in single-process mode.
C2_Orig == \A p \in Procs : argWrites[p] = {}

\* C2 (amended): after parse_args has returned the only field of args that
\* is written is global_rank, written in distributed mode only, by the step
\* that initialises the process group, with the RANK of the process; every
\* other field, and every field in single-process mode, keeps its parsed
\* value for the rest of the run.
C2_OnlyGlobalRankWritten ==
  /\ [](\A p \in Launched :
          /\ argWrites[p] \subseteq {"global_rank"}
          /\ argWrites[p] # {} => cmdline.is_distributed = 1 /\ pgState[p] # "none"
          /\ pc[p] # "parse" =>
               args[p] = IF argWrites[p] = {} THEN cmdline
                         ELSE [cmdline EXCEPT !.global_rank = p])
  /\ [][\A p \in Launched :
          (pc[p] # "parse" /\ (args[p]' # args[p] \/ argWrites[p]' # argWrites[p]))
             => pc[p] = "ddp" /\ pgState[p]' = "init"]_vars

C2_Witness ==
  \E p \in Launched :
    /\ pc[p] = "done" /\ argWrites[p] = {"global_rank"}
    /\ args[p].global_rank # cmdline.global_rank

\* ---- C3 ----
\* C3: train_and_eval runs exactly args.epochs epochs numbered 0..epochs-1:
\* train(e) returns before eval(e) is called and eval(e) returns before
\* train(e+1) is called; no call at all when epochs <= 0.
C3_EpochLoop ==
  \A p \in Launched :
    /\ IsPrefix(callLog[p], ExpectedCalls(cmdline.epochs))
    /\ pc[p] \in {"teardown", "done"} => callLog[p] = ExpectedCalls(cmdline.epochs)
    /\ pc[p] = "train" =>
         Len(callLog[p]) = 4 * epoch[p] + 1 /\ epoch[p] < cmdline.epochs
    /\ pc[p] = "eval" => Len(callLog[p]) = 4 * epoch[p] + 3
    /\ pc[p] = "loop" => Len(callLog[p]) = 4 * epoch[p]

C3_Witness ==
  \E p \in Launched :
    /\ pc[p] = "done" /\ cmdline.epochs = MaxEpochs
    /\ Len(callLog[p]) = 4 * MaxEpochs
    /\ callLog[p][Len(callLog[p])] = <<"eval_ret", MaxEpochs - 1>>

\* ---- C4 ----
\* C4 (as stated): the pretrained weights are loaded exactly once per run,
\* before the first optimizer step, for every value of --model; afterwards
\* the weights change only through optimizer steps inside train(), and
\* evaluation leaves them unchanged.
C4_Orig ==
  /\ [](\A p \in Launched :
          /\ loadCount[p] <= 1
          /\ optSteps[p] > 0 => loadCount[p] = 1
          /\ model[p] # "unset" => loadCount[p] = 1)
  /\ [][\A p \in Launched :
          /\ loadCount[p] = 1 => loadCount[p]' = 1
          /\ optSteps[p]' # optSteps[p] => pc[p] = "train"
          /\ pc[p] = "eval" => optSteps[p]' = optSteps[p]]_vars

\* ---- C5 ----
\* C5: nothing is caught, retried or translated: once a stage has raised,
\* the process is at its end and none of its state changes any more; no
\* later stage runs, no epoch is trained, no metric is logged and the
\* process group is not torn down.
C5_FailureEndsRun ==
  /\ [](\A p \in Procs : exc[p] => pc[p] = "failed" /\ pgState[p] # "destroyed")
  /\ [][\A p \in Procs : exc[p] => exc[p]' /\ PState(p)' = PState(p)]_vars
  /\ [][\A p \in Procs : (~exc[p] /\ exc[p]') =>
          /\ pc[p]' = "failed"
          /\ stages[p]' = stages[p] /\ callLog[p]' = callLog[p]
          /\ wandbLog[p]' = wandbLog[p] /\ optSteps[p]' = optSteps[p]
          /\ pgState[p]' = pgState[p]]_vars

C5_Witness ==
  \E p \in Launched :
    /\ exc[p] /\ pc[p] = "failed" /\ pgState[p] = "init"
    /\ optSteps[p] > 0 /\ epoch[p] < cmdline.epochs

\* ---- C6 ----
\* C6 (as stated): a process logs metrics only if it initialised the
\* tracker, and a process that initialised the tracker logs the four
\* metrics, tagged with the epoch, after every epoch's evaluation; in
\* distributed mode that process is global rank 0 and no other.
C6_Orig ==
  \A p \in Launched :
    /\ wandbLog[p] # << >> => wandbInited[p]
    /\ (wandbInited[p] /\ pc[p] \in {"loop", "train", "eval", "teardown", "done"})
          => wandbLog[p] = ExpectedMetrics(epoch[p])
    /\ (cmdline.is_distributed = 1 /\ pgState[p] # "none")
          => (wandbInited[p] => p = 0)

\* ---- C7 ----
\* C7: in distributed mode every process calls the barrier exactly twice
\* during data loading, once before and once after dataset construction,
\* and never in single-process mode; so when no process fails, no process
\* waits forever at a barrier and every process reaches teardown.
C7_Barriers ==
  /\ [](\A p \in Launched :
          /\ cmdline.is_distributed # 1 => barrierCalls[p] = 0
          /\ cmdline.is_distributed = 1 =>
               /\ pc[p] \in {"parse", "ddp", "wandb", "data_barrier1"}
                    => barrierCalls[p] = 0
               /\ pc[p] \in {"data_wait1", "data_construct", "data_barrier2"}
                    => barrierCalls[p] = 1
               /\ (pc[p] = "data_wait2" \/ samplerClass[p] # "none")
                    => barrierCalls[p] = 2
               /\ barrierCalls[p] <= 2
               /\ barrierCalls[p] = 1 => (loaded[p] = "none") = (pc[p] # "data_barrier2")
               /\ barrierCalls[p] = 2 => loaded[p] # "none")
  /\ (cmdline.is_distributed = 1 /\ [](\A p \in Procs : ~exc[p]))
        => <>(\A p \in Launched : pc[p] = "done" /\ pgState[p] = "destroyed")

C7_Witness ==
  /\ world >= 2
  /\ \A p \in Launched :
       pc[p] = "done" /\ barrierCalls[p] = 2 /\ pgState[p] = "destroyed"

\* ---- C8 ----
\* C8 (as stated): for every --dataset the model's number of output
\* classes equals the number of classes of the dataset actually loaded.
C8_Orig ==
  \A p \in Launched :
    model[p] \in {"ViT", "DDP"} => numClasses[p] = ClassesOf(loaded[p])

\* ---- C9 ----
\* C9 (as stated): for every value of --is_distributed, barrier calls, the
\* DistributedSampler, the data-parallel wrap and teardown each occur iff
\* the run initialised the process group, and only after initialisation.
C9_Orig ==
  \A p \in Launched :
    /\ barrierCalls[p] > 0 => pgState[p] # "none"
    /\ samplerClass[p] = "Distributed" => pgState[p] # "none"
    /\ model[p] = "DDP" => pgState[p] # "none"
    /\ pc[p] = "done" =>
         /\ (pgState[p] # "none") = (barrierCalls[p] > 0)
         /\ (pgState[p] # "none") = (samplerClass[p] = "Distributed")
         /\ (pgState[p] # "none") = (model[p] = "DDP")
         /\ (pgState[p] # "none") = (pgState[p] = "destroyed")

\* ---- C10 ----
\* C10 (as stated): the scheduler is never stepped more often than the
\* t_total = args.epochs it was configured with.
C10_Orig ==
  \A p \in Launched : schedSteps[p] > 0 => schedSteps[p] <= tTotal[p]

====
